---- MODULE Spec2Model ----
(***************************************************************************)
(* The AI response gateway of Aura: the chat handler of the backend        *)
(* (src/backend/server.ts and its two earlier revisions kept in            *)
(* src/unnamed/part_000), the browser-side dispatcher (src/src/ai.ts and  *)
(* its earlier revisions in src/unnamed/part_003 and part_004) and the     *)
(* front end that keeps the conversation history (src/src/main.ts).        *)
(*                                                                         *)
(* Text is modelled as a sequence of lexical tokens.  A token stands for   *)
(* the characters it is written with: "{" is one brace, "\"text\"" is the  *)
(* seven characters of a quoted JSON string, "a" a lower-case letter.      *)
(* "<fence>" stands for three backquotes and "<fence-json>" for three      *)
(* backquotes followed by json.  No token holds a brace, a fence or white  *)
(* space inside it, so the regular expressions and String methods of the   *)
(* source act on whole tokens.                                             *)
(***************************************************************************)
EXTENDS Integers, Sequences, FiniteSets, TLC

VARIABLES
    impl,       \* which revision of the code runs
    env,        \* process.env: the set of credential names that are set
    active,     \* the requests of this run
    pc,         \* per request: the await it is suspended at
    req,        \* per request: the request body and arguments
    contents,   \* per request: the turn list built for Gemini
    calls,      \* per request: the provider endpoints fetched, in order
    outs,       \* per request: what each of those fetches came back with
    raw,        \* per request: the raw text the dispatch returned
    reply,      \* per request: the reply value after parsing and upper-casing
    resp,       \* per request: the responses sent (or results delivered)
    db,         \* the persistence inserts attempted, in order
    trail,      \* per request: the stages of its life it has passed, in order
    cl,         \* the browser client of part_003 that sent request 1, if any
    ui,         \* the browser front end of main.ts: its history and its transcripts
    fnPc,       \* harness of the pure functions: position
    fnArg,      \* harness: the argument
    fnRes       \* harness: the results so far

vars == <<impl, env, active, pc, req, contents, calls, outs, raw, reply, resp, db,
          trail, cl, ui, fnPc, fnArg, fnRes>>

handlerVars == <<impl, env, active, pc, req, contents, calls, outs, raw, reply, resp, db,
                 trail>>

fnVars == <<fnPc, fnArg, fnRes>>

(***************************************************************************)
(* Bounds of the model.                                                    *)
(***************************************************************************)
MaxTextLen == 3

MaxMsgs == 1

MaxTurnMsgs == 3

MaxRawLen == 3

MaxHistoryMsgs == 2

MaxTranscripts == 3

(***************************************************************************)
(* Tokens.                                                                 *)
(***************************************************************************)
WS == " "

LB == "{"

RB == "}"

COLON == ":"

COMMA == ","

FENCE == "<fence>"

FENCEJSON == "<fence-json>"

NULLLIT == "null"

QuotedTokens == {"\"text\"", "\"response\"", "\"message\"", "\"error\"",
                 "\"intent\"", "\"a\"", "\"A\"", "\"\"", "\"T\"", "\"R\"", "\"M\""}

DigitTokens == {"0", "5"}

\* The characters between the quotes of a quoted token.
Content(q) ==
    CASE q = "\"text\"" -> "text"
      [] q = "\"response\"" -> "response"
      [] q = "\"message\"" -> "message"
      [] q = "\"error\"" -> "error"
      [] q = "\"intent\"" -> "intent"
      [] q = "\"a\"" -> "a"
      [] q = "\"A\"" -> "A"
      [] q = "\"T\"" -> "T"
      [] q = "\"R\"" -> "R"
      [] q = "\"M\"" -> "M"
      [] OTHER -> ""

DigitValue(d) == IF d = "5" THEN 5 ELSE 0

(***************************************************************************)
(* JavaScript values.                                                      *)
(***************************************************************************)
Str(s) == [t |-> "string", s |-> s]

Num(n) == [t |-> "number", n |-> n]

Null == [t |-> "null"]

Undef == [t |-> "undefined"]

Obj(f) == [t |-> "object", f |-> f]

EmptyFields == [k \in {} |-> Undef]

\* ToBoolean, as || and if apply it.
Truthy(v) ==
    CASE v.t = "string" -> v.s # <<>>
      [] v.t = "number" -> v.n # 0
      [] v.t = "object" -> TRUE
      [] OTHER -> FALSE

\* v.k throws a TypeError on null and undefined.
GetThrows(v) == v.t \in {"null", "undefined"}

\* v.k where it does not throw: own property of an object, undefined on a primitive.
Get(v, k) ==
    IF v.t = "object" /\ k \in DOMAIN v.f THEN v.f[k] ELSE Undef

\* a || b
Or(a, b) == IF Truthy(a) THEN a ELSE b

(***************************************************************************)
(* String methods.                                                         *)
(***************************************************************************)
RECURSIVE Flatten(_)
Flatten(ss) == IF ss = <<>> THEN <<>> ELSE Head(ss) \o Flatten(Tail(ss))

\* A case swap instead of an upper-casing.
UpperTokMutant(tk) ==
    CASE tk = "a" -> <<"A">>
      [] tk = "A" -> <<"a">>
      [] OTHER -> <<tk>>

\* String.prototype.toUpperCase on the characters of one token; the upper-case
\* form of a character may be longer than the character.
UpperTok(tk) ==
    CASE tk = "a" -> <<"A">>
      [] tk = "ß" -> <<"S", "S">>
      [] tk = "\"a\"" -> <<"\"A\"">>
      [] tk = "\"text\"" -> <<"\"TEXT\"">>
      [] tk = "\"response\"" -> <<"\"RESPONSE\"">>
      [] tk = "\"message\"" -> <<"\"MESSAGE\"">>
      [] tk = "\"error\"" -> <<"\"ERROR\"">>
      [] tk = "\"intent\"" -> <<"\"INTENT\"">>
      [] tk = "text" -> <<"TEXT">>
      [] tk = "response" -> <<"RESPONSE">>
      [] tk = "message" -> <<"MESSAGE">>
      [] tk = "error" -> <<"ERROR">>
      [] tk = "intent" -> <<"INTENT">>
      [] tk = "null" -> <<"NULL">>
      [] tk = "<fence-json>" -> <<"<FENCE-JSON>">>
      [] OTHER -> <<tk>>

toUpperCase(s) == Flatten([i \in 1..Len(s) |-> UpperTok(s[i])])

RECURSIVE TrimStart(_)
TrimStart(s) == IF s # <<>> /\ Head(s) = WS THEN TrimStart(Tail(s)) ELSE s

RECURSIVE TrimEnd(_)
TrimEnd(s) ==
    IF s # <<>> /\ s[Len(s)] = WS THEN TrimEnd(SubSeq(s, 1, Len(s) - 1)) ELSE s

trim(s) == TrimEnd(TrimStart(s))

\* s.replace(/<fence-json>|<fence>/g, '')
StripFences(s) == SelectSeq(s, LAMBDA tk : tk \notin {FENCE, FENCEJSON})

\* s.replace(/<fence-json>|<fence>|\{|\}/g, '')
StripFencesAndBraces(s) ==
    SelectSeq(s, LAMBDA tk : tk \notin {FENCE, FENCEJSON, LB, RB})

\* Position of the first token of s that is tk, 0 when there is none.
RECURSIVE IndexFrom(_, _, _)
IndexFrom(s, tk, i) ==
    IF i > Len(s) THEN 0 ELSE IF s[i] = tk THEN i ELSE IndexFrom(s, tk, i + 1)

IndexOf(s, tk) == IndexFrom(s, tk, 1)

RECURSIVE LastIndexFrom(_, _, _)
LastIndexFrom(s, tk, i) ==
    IF i < 1 THEN 0 ELSE IF s[i] = tk THEN i ELSE LastIndexFrom(s, tk, i - 1)

LastIndexOf(s, tk) == LastIndexFrom(s, tk, Len(s))

(***************************************************************************)
(* JSON.parse.  White space may stand between the tokens of a JSON text;   *)
(* adjacent digits are one number, which may not start with 0 unless it    *)
(* is 0.                                                                   *)
(***************************************************************************)
RECURSIVE SkipWs(_, _)
SkipWs(s, i) == IF i <= Len(s) /\ s[i] = WS THEN SkipWs(s, i + 1) ELSE i

RECURSIVE DigitsEnd(_, _)
DigitsEnd(s, i) ==
    IF i <= Len(s) /\ s[i] \in DigitTokens THEN DigitsEnd(s, i + 1) ELSE i

RECURSIVE DigitsValue(_, _, _, _)
DigitsValue(s, i, e, acc) ==
    IF i >= e THEN acc ELSE DigitsValue(s, i + 1, e, 10 * acc + DigitValue(s[i]))

ParseFail == [ok |-> FALSE, v |-> Undef, next |-> 0]

ParseOk(v, next) == [ok |-> TRUE, v |-> v, next |-> next]

RECURSIVE ParseValue(_, _), ParseMembers(_, _, _, _)
ParseValue(s, i) ==
    LET j == SkipWs(s, i) IN
    IF j > Len(s) THEN ParseFail
    ELSE IF s[j] = LB THEN ParseMembers(s, SkipWs(s, j + 1), EmptyFields, TRUE)
    ELSE IF s[j] \in QuotedTokens THEN
        ParseOk(Str(IF Content(s[j]) = "" THEN <<>> ELSE <<Content(s[j])>>), j + 1)
    ELSE IF s[j] \in DigitTokens THEN
        LET e == DigitsEnd(s, j) IN
        IF e - j > 1 /\ s[j] = "0" THEN ParseFail
        ELSE ParseOk(Num(DigitsValue(s, j, e, 0)), e)
    ELSE IF s[j] = NULLLIT THEN ParseOk(Null, j + 1)
    ELSE ParseFail

ParseMembers(s, i, acc, first) ==
    IF i > Len(s) THEN ParseFail
    ELSE IF s[i] = RB /\ first THEN ParseOk(Obj(acc), i + 1)
    ELSE IF s[i] \notin QuotedTokens THEN ParseFail
    ELSE
        LET c == SkipWs(s, i + 1) IN
        IF c > Len(s) \/ s[c] # COLON THEN ParseFail
        ELSE
            LET pv == ParseValue(s, c + 1) IN
            IF ~pv.ok THEN ParseFail
            ELSE
                LET key == Content(s[i])
                    acc2 == [k \in DOMAIN acc \cup {key} |->
                                IF k = key THEN pv.v ELSE acc[k]]
                    e == SkipWs(s, pv.next)
                IN
                IF e > Len(s) THEN ParseFail
                ELSE IF s[e] = RB THEN ParseOk(Obj(acc2), e + 1)
                ELSE IF s[e] = COMMA THEN ParseMembers(s, SkipWs(s, e + 1), acc2, FALSE)
                ELSE ParseFail

\* The value pv read from the start of s is the whole of s, or a SyntaxError.
WholeText(s, pv) ==
    IF pv.ok /\ SkipWs(s, pv.next) > Len(s)
    THEN [threw |-> FALSE, v |-> pv.v]
    ELSE [threw |-> TRUE, v |-> Undef]

\* JSON.parse(s): the value, or a SyntaxError.
JSONparse(s) == WholeText(s, ParseValue(s, 1))

(***************************************************************************)
(* The replies and the parsers of the four revisions.                      *)
(***************************************************************************)
Threw(msg) == [threw |-> TRUE, msg |-> msg, v |-> Undef]

Returned(v) == [threw |-> FALSE, msg |-> "", v |-> v]

\* { type: 'conversation' }
ConvIntent == Obj([k \in {"type"} |-> Str(<<"conversation">>)])

\* { text: t, intent: { type: 'conversation' } }
TextAndIntent(t) == Obj([k \in {"text", "intent"} |-> IF k = "text" THEN t ELSE ConvIntent])

\* { text: t }
TextOnly(t) == Obj([k \in {"text"} |-> t])

\* { error: msg }
ErrorBody(msg) == Obj([k \in {"error"} |-> Str(<<msg>>)])

\* o.k = v on an object o
SetField(o, key, v) ==
    Obj([k \in DOMAIN o.f \cup {key} |-> IF k = key THEN v ELSE o.f[k]])

\* A lower-casing in place of the upper-casing.
sanitizeMutant(x) == [i \in 1..Len(x) |-> IF x[i] = "A" THEN "a" ELSE x[i]]

\* The output sanitizer: the reply text in upper case.
sanitize(x) == toUpperCase(x)

\* if (parsedResponse.text) parsedResponse.text = parsedResponse.text.toUpperCase()
EnsureUpper(parsed, tx) ==
    IF ~Truthy(tx) THEN Returned(parsed)
    ELSE IF tx.t # "string" THEN Threw("TypeError: toUpperCase is not a function")
    ELSE Returned(SetField(parsed, "text", Str(sanitize(tx.s))))

\* "Ensure text is uppercase" of the handler of server.ts, on the parsed value.
UpperParsed(parsed) ==
    IF GetThrows(parsed) THEN Threw("TypeError: cannot read properties of null")
    ELSE EnsureUpper(parsed, Get(parsed, "text"))

\* Step 3 of the handler of server.ts on the outcome j of JSON.parse: the
\* catch falls back to the raw text.
ParsedOrRaw(rawS, j) == IF j.threw THEN TextAndIntent(Str(rawS)) ELSE j.v

\* Steps 3 and "ensure text is uppercase" of the handler of server.ts.
ParseServer(rawS) == UpperParsed(ParsedOrRaw(rawS, JSONparse(trim(StripFences(rawS)))))

\* aiText.match(/\{[\s\S]*\}/): greedy, from the first "{" to the last "}".
MatchFrom(s) == IndexOf(s, LB)

MatchTo(s) == LastIndexOf(s, RB)

HasMatch(s) == MatchFrom(s) > 0 /\ MatchTo(s) > MatchFrom(s)

\* aiText.split('{')[0]
BeforeBrace(s) == IF IndexOf(s, LB) = 0 THEN s ELSE SubSeq(s, 1, IndexOf(s, LB) - 1)

Placeholder == "I AM SORRY, I ENCOUNTERED A PARSING ERROR."

\* The catch branch of the "smart parser".
SmartCatch(s) == Or(Or(Str(trim(BeforeBrace(s))), Str(s)), Str(<<Placeholder>>))

\* The catch branch of the later revision: no placeholder.
VercelCatch(s) == Or(Str(trim(BeforeBrace(s))), Str(s))

\* The try block shared by the two revisions of part_000: the value left in
\* finalText, or threw when JSON.parse threw.
\* aiText.replace(potentialJson, ''): s without the match.
WithoutMatch(s) == SubSeq(s, 1, MatchFrom(s) - 1) \o SubSeq(s, MatchTo(s) + 1, Len(s))

\* The line that reads the fields of the parsed match, j the outcome of JSON.parse.
FieldOrRest(s, j) ==
    IF j.threw \/ GetThrows(j.v) THEN Threw("SyntaxError")
    ELSE Returned(Or(Or(Or(Get(j.v, "text"), Get(j.v, "response")),
                        Get(j.v, "message")), Str(trim(WithoutMatch(s)))))

ExtractText(s) ==
    IF HasMatch(s)
    THEN FieldOrRest(s, JSONparse(trim(StripFences(SubSeq(s, MatchFrom(s), MatchTo(s))))))
    ELSE Returned(Str(trim(StripFencesAndBraces(s))))

\* finalText = finalText.toUpperCase(); the body is { text: finalText }.
UpperFinal(v) ==
    IF v.t # "string" THEN Threw("TypeError: toUpperCase is not a function")
    ELSE Returned(TextOnly(Str(sanitize(v.s))))

\* The value of finalText after the try and its catch, e the outcome of the try.
SmartFinalText(s, e) == IF e.threw THEN SmartCatch(s) ELSE e.v

VercelFinalText(s, e) == IF e.threw THEN VercelCatch(s) ELSE e.v

ParseSmart(s) == UpperFinal(SmartFinalText(s, ExtractText(s)))

ParseVercel(s) == UpperFinal(VercelFinalText(s, ExtractText(s)))

\* JSON.parse(raw.replace(...).trim()) of parseAIResponse; raw.replace throws
\* when raw is not a string.
ParseClean(rawV) ==
    IF rawV.t = "string" THEN JSONparse(trim(StripFences(rawV.s)))
    ELSE [threw |-> TRUE, v |-> Undef]

\* The object parseAIResponse of ai.ts returns, j the outcome of JSON.parse.
ResponseOf(rawV, j) ==
    LET p == j.v IN
    IF j.threw \/ GetThrows(p) THEN TextAndIntent(rawV)
    ELSE Obj([k \in {"text", "type", "action", "topic", "intent"} |->
              CASE k = "text" ->
                     Or(Or(Or(Get(p, "response"), Get(p, "text")), Get(p, "message")),
                        IF p.t = "string" THEN p ELSE rawV)
                [] k = "intent" -> Or(Get(p, "intent"), ConvIntent)
                [] OTHER -> Get(p, k)])

\* parseAIResponse of ai.ts; raw is the value the envelope held, a string or undefined.
parseAIResponse(rawV) == ResponseOf(rawV, ParseClean(rawV))

\* The object the earlier parseAIResponse returns, j the outcome of JSON.parse:
\* another order of the fields, and the text upper-cased inside the try block.
EarlierResponseOf(rawV, j) ==
    LET p == j.v
        caught == Returned(TextAndIntent(Str(toUpperCase(rawV.s))))
    IN
    IF j.threw \/ GetThrows(p) THEN caught
    ELSE
        LET tx == Or(Or(Or(Get(p, "text"), Get(p, "message")), Get(p, "response")), rawV) IN
        IF tx.t # "string" THEN caught
        ELSE Returned(SetField(TextAndIntent(Str(toUpperCase(tx.s))), "intent",
                               Or(Get(p, "intent"), ConvIntent)))

\* parseAIResponse of the earlier revision of ai.ts.
parseAIResponseEarlier(rawV) ==
    IF rawV.t # "string" THEN Threw("TypeError: cannot read properties of undefined")
    ELSE EarlierResponseOf(rawV, ParseClean(rawV))

EmptyMsg == "Received empty response from AI provider."

\* What the handler does with the value the dispatch returned, up to the reply
\* it is about to save and send.
Normalize(im, v) ==
    CASE im = "server" ->
           IF ~Truthy(v) THEN Threw(EmptyMsg) ELSE ParseServer(v.s)
      [] im = "smart" ->
           IF ~Truthy(v) THEN Threw(EmptyMsg) ELSE ParseSmart(v.s)
      [] im = "vercel" ->
           IF v.t # "string" THEN Threw("TypeError: cannot read properties of undefined")
           ELSE ParseVercel(v.s)
      [] OTHER -> Returned(parseAIResponse(v))

(***************************************************************************)
(* Conversation normalisation: the turn list of getGeminiResponse.         *)
(***************************************************************************)
Roles == {"user", "assistant", "system"}

NL == "<newline>"

SYSTEMTAG == "[SYSTEM CONTEXT]: "

\* The content of the i-th message of a list: one token, its own.
ContentAt(i) == <<<<"c1">>, <<"c2">>, <<"c3">>, <<"c4">>, <<"c5">>, <<"c6">>>>[i]

\* The message lists of n messages: every assignment of roles.
MsgLists(n) ==
    {[i \in 1..n |-> [role |-> rs[i], content |-> ContentAt(i)]] : rs \in [1..n -> Roles]}

MsgListsUpTo(n) == UNION {MsgLists(k) : k \in 0..n}

\* m.role === 'assistant' ? 'model' : 'user'
TurnRole(m) == IF m.role = "assistant" THEN "model" ELSE "user"

Turn(role, text) == [role |-> role, text |-> text]

\* server.ts and the first revision of part_000: merge on an equal role, "\n" between.
RECURSIVE ContentsServerFrom(_, _)
ContentsServerFrom(ms, acc) ==
    IF ms = <<>> THEN acc
    ELSE
        LET m == Head(ms)
            n == Len(acc)
        IN
        IF n > 0 /\ acc[n].role = TurnRole(m)
        THEN ContentsServerFrom(Tail(ms), [acc EXCEPT ![n].text = @ \o <<NL>> \o m.content])
        ELSE ContentsServerFrom(Tail(ms), Append(acc, Turn(TurnRole(m), m.content)))

ContentsServer(ms) == ContentsServerFrom(ms, <<>>)

\* ai.ts: a system message is tagged; merge on an equal role, "\n\n" between.
AiText(m) == IF m.role = "system" THEN <<SYSTEMTAG>> \o m.content ELSE m.content

RECURSIVE ContentsAiFrom(_, _)
ContentsAiFrom(ms, acc) ==
    IF ms = <<>> THEN acc
    ELSE
        LET m == Head(ms)
            n == Len(acc)
        IN
        IF n > 0 /\ acc[n].role = TurnRole(m)
        THEN ContentsAiFrom(Tail(ms), [acc EXCEPT ![n].text = @ \o <<NL, NL>> \o AiText(m)])
        ELSE ContentsAiFrom(Tail(ms), Append(acc, Turn(TurnRole(m), AiText(m))))

ContentsAi(ms) == ContentsAiFrom(ms, <<>>)

\* The second revision of part_000: system messages filtered out, the rest mapped.
RECURSIVE ContentsVercel(_)
ContentsVercel(ms) ==
    IF ms = <<>> THEN <<>>
    ELSE IF Head(ms).role = "system" THEN ContentsVercel(Tail(ms))
    ELSE <<Turn(TurnRole(Head(ms)), Head(ms).content)>> \o ContentsVercel(Tail(ms))

BuildContents(im, ms) ==
    CASE im = "vercel" -> ContentsVercel(ms)
      [] im = "ai" -> ContentsAi(ms)
      [] OTHER -> ContentsServer(ms)

(***************************************************************************)
(* Dispatch.                                                               *)
(***************************************************************************)
Impls == {"server", "smart", "vercel", "ai"}

Providers == {"gemini", "groq", "openai", "unknown"}

KeyNames == {"GEMINI_API_KEY", "GROQ_API_KEY", "OPENAI_API_KEY"}

\* const models = [...]
GeminiModels(im) ==
    IF im = "vercel"
    THEN <<"gemini-1.5-flash", "gemini-1.5-flash-latest", "gemini-pro">>
    ELSE <<"gemini-1.5-flash", "gemini-1.5-pro", "gemini-pro">>

\* The endpoints a provider is tried on, in order.
Candidates(im, provider) ==
    CASE provider = "gemini" -> GeminiModels(im)
      [] provider = "groq" -> <<"llama-3.3-70b-versatile">>
      [] OTHER -> <<"gpt-3.5-turbo">>

\* A lookup that falls back to the Gemini credential.
KeyNameMutant(provider) ==
    CASE provider = "openai" -> "OPENAI_API_KEY"
      [] provider = "groq" -> "GROQ_API_KEY"
      [] OTHER -> "GEMINI_API_KEY"

\* provider === 'gemini' ? GEMINI_API_KEY : provider === 'groq' ? GROQ_API_KEY : OPENAI_API_KEY
KeyName(provider) ==
    CASE provider = "gemini" -> "GEMINI_API_KEY"
      [] provider = "groq" -> "GROQ_API_KEY"
      [] OTHER -> "OPENAI_API_KEY"

\* What a fetch comes back with: the fetch rejects, a non-success status with an
\* error envelope, or a success status with an envelope whose text path holds
\* content (undefined when the path is missing).
Transport == [kind |-> "transport", content |-> Undef]

NotOk == [kind |-> "notok", content |-> Undef]

Ok(content) == [kind |-> "ok", content |-> content]

ConfigMsg(im) ==
    CASE im = "vercel" -> "SERVER ERROR: API Key is not configured in Vercel settings."
      [] im = "ai" -> "API Key is missing."
      [] OTHER -> "API Key is not configured on the server."

ExhaustedMsg(im) ==
    CASE im = "vercel" -> "ALL GEMINI MODELS FAILED OR API KEY INVALID."
      [] im = "ai" -> "Gemini failed after multiple attempts."
      [] OTHER -> "Gemini Connection Error."

Continue == [k |-> "continue", msg |-> "", v |-> Undef]

Return(v) == [k |-> "return", msg |-> "", v |-> v]

Throw(msg) == [k |-> "throw", msg |-> msg, v |-> Undef]

\* The loop without its if (text): any success status ends it.
GeminiStepMutant(o) ==
    IF o.kind = "ok" THEN Return(o.content) ELSE Continue

\* One iteration of the for loop of getGeminiResponse.
GeminiStep(o) ==
    IF o.kind = "ok" /\ Truthy(o.content) THEN Return(o.content) ELSE Continue

\* getGroqResponse and getOpenAIResponse: one fetch, no loop.
SingleStep(im, o) ==
    CASE o.kind = "transport" -> Throw("fetch failed")
      [] o.kind = "notok" ->
           IF im \in {"server", "smart"}
           THEN Throw("TypeError: cannot read properties of undefined")
           ELSE Throw("provider error message")
      [] OTHER -> Return(o.content)

\* The loop without the throw after it: an exhausted list returns undefined.
AfterFetchMutant(im, provider, i, o) ==
    IF provider = "gemini" THEN
        LET g == GeminiStep(o) IN
        IF g.k = "continue" /\ i >= Len(GeminiModels(im)) THEN Return(Undef) ELSE g
    ELSE SingleStep(im, o)

\* The loop going on after a text came back: only the last model of the list
\* ends it.
AfterFetchAllMutant(im, provider, i, o) ==
    IF provider = "gemini" THEN
        IF i < Len(GeminiModels(im)) THEN Continue
        ELSE LET g == GeminiStep(o) IN
             IF g.k = "continue" THEN Throw(ExhaustedMsg(im)) ELSE g
    ELSE SingleStep(im, o)

\* The outcome of the i-th fetch of a dispatch.
AfterFetch(im, provider, i, o) ==
    IF provider = "gemini" THEN
        LET g == GeminiStep(o) IN
        IF g.k = "continue" /\ i >= Len(GeminiModels(im))
        THEN Throw(ExhaustedMsg(im))
        ELSE g
    ELSE SingleStep(im, o)

(***************************************************************************)
(* The requests and what the providers may answer.                         *)
(***************************************************************************)
Reqs == {1, 2}

Missing == [kind |-> "missing", list |-> <<>>]

NotArray == [kind |-> "notArray", list |-> <<>>]

Array(ms) == [kind |-> "array", list |-> ms]

Request(messages, provider, apiKey) ==
    [messages |-> messages, provider |-> provider, apiKey |-> apiKey]

IdleRequest == Request(Missing, "unknown", FALSE)

\* The bodies POST /api/chat may be sent, and the arguments getAIResponse is called with.
Requests(im) ==
    IF im = "ai"
    THEN {Request(Array(ms), p, k) :
            ms \in MsgListsUpTo(MaxMsgs) \ {<<>>}, p \in Providers \ {"unknown"}, k \in BOOLEAN}
    ELSE {Request(m, p, FALSE) :
            m \in {Missing, NotArray} \cup {Array(ms) : ms \in MsgListsUpTo(MaxMsgs)},
            p \in Providers}

EnvChoices(im) ==
    CASE im = "ai" -> {{}}
      [] im = "vercel" -> SUBSET (KeyNames \cup {"DATABASE_URL"})
      [] OTHER -> SUBSET KeyNames

\* Raw texts a provider may generate.
RawObjText == <<LB, "\"text\"", COLON, "\"a\"", RB>>

RawObjUpper == <<LB, "\"text\"", COLON, "\"A\"", RB>>

RawObjResponse == <<LB, "\"response\"", COLON, "\"a\"", RB>>

RawObjNumber == <<LB, "\"text\"", COLON, "5", RB>>

RawNull == <<NULLLIT>>

RawProse == <<"a", WS, "ß">>

RawEmbedded == <<"a", WS, LB, "\"text\"", COLON, "\"A\"", RB, WS, "a">>

RawTextAndError == <<LB, "\"text\"", COLON, "\"a\"", COMMA, "\"error\"", COLON, "\"a\"", RB>>

RawTruncated == <<LB, "\"text\"", COLON, WS, "\"A\"">>

RawEmptyObj == <<LB, RB>>

RawFenced == <<FENCEJSON, WS, LB, "\"text\"", COLON, "\"A\"", RB, WS, FENCE>>

RawNumber == <<"5">>

RawProseThenObj == <<"a", WS, LB, "\"response\"", COLON, "\"a\"", RB>>

RawProseTruncated == <<"a", WS, LB, "\"text\"", COLON, WS, "\"A\"">>

RawProseInvalid == <<"a", WS, LB, "\"text\"", WS, "\"A\"", RB>>

RawObjError == <<LB, "\"error\"", COLON, "\"a\"", RB>>

RawTextResponse == <<LB, "\"text\"", COLON, "\"T\"", COMMA, "\"response\"", COLON, "\"R\"", RB>>

RawResponseMessage == <<LB, "\"response\"", COLON, "\"R\"", COMMA, "\"message\"", COLON, "\"M\"", RB>>

RawMessageResponseText ==
    <<LB, "\"message\"", COLON, "\"M\"", COMMA, "\"response\"", COLON, "\"R\"", COMMA,
      "\"text\"", COLON, "\"T\"", RB>>

RawProseObjProse == <<"a", WS, LB, "\"error\"", COLON, "\"a\"", RB, WS, "ß">>

RawProseObj == <<"a", WS, LB, "\"error\"", COLON, "\"a\"", RB>>

RawTwoObjects ==
    <<LB, "\"text\"", COLON, "\"T\"", RB, WS, "a", WS, LB, "\"text\"", COLON, "\"R\"", RB>>

RawProseTwoObjects ==
    <<"a", WS, LB, "\"text\"", COLON, "\"T\"", RB, WS, "a", WS, LB, "\"error\"", COLON, "\"a\"", RB>>

HandlerRaws == {RawObjText, RawObjUpper, RawObjResponse, RawObjNumber, RawNull, RawProse, RawEmbedded,
                RawTextAndError, RawTruncated, RawEmptyObj, RawFenced, RawNumber}

Outcomes ==
    {Transport, NotOk, Ok(Undef), Ok(Str(<<>>))} \cup {Ok(Str(x)) : x \in HandlerRaws}

(***************************************************************************)
(* The handler, one action per stretch of code between two awaits.         *)
(***************************************************************************)
\* The validation without its length check.
InvalidMessagesMutant(m) == m.kind # "array"

\* !messages || !Array.isArray(messages) || messages.length === 0
InvalidMessages(m) == m.kind # "array" \/ Len(m.list) = 0

\* The revision of part_000 that makes the pool optional has one only when
\* DATABASE_URL is set.
HasPool == impl # "vercel" \/ "DATABASE_URL" \in env

\* A built-in default key for Gemini stands in for the missing one.
HasKeyMutant(r) ==
    \/ req[r].provider = "gemini"
    \/ IF impl = "ai" THEN req[r].apiKey ELSE KeyName(req[r].provider) \in env

\* The provider kept in one variable of the module, which every request
\* overwrites: the lookup reads the provider of the request that came last.
HasKeySharedMutant(r) == KeyName(req[2].provider) \in env

\* if (!apiKey)
HasKey(r) == IF impl = "ai" THEN req[r].apiKey ELSE KeyName(req[r].provider) \in env

\* The first message of the list in place of the last one.
LastContentMutant(r) == req[r].messages.list[1].content

\* messages[messages.length - 1].content
LastContent(r) == req[r].messages.list[Len(req[r].messages.list)].content

Response(status, body) == [status |-> status, body |-> body]

\* The request passes the stages st.
Mark(r, st) == trail' = [trail EXCEPT ![r] = @ \o st]

\* The stages between the return of the dispatch with v and the reply: the
\* dispatch succeeded, the text was parsed, the text was upper-cased; threw
\* tells whether these steps threw.  A throw of the empty check or of the parse
\* step ends them before PARSED, a throw of the upper-casing before SANITIZED;
\* ai.ts has no upper-casing.
Stages(im, v, threw) ==
    LET early == IF im = "vercel" THEN v.t # "string" ELSE ~Truthy(v) IN
    CASE im = "ai" -> <<"SUCCESS", "PARSED">>
      [] threw /\ early -> <<"SUCCESS">>
      [] threw -> <<"SUCCESS", "PARSED">>
      [] OTHER -> <<"SUCCESS", "PARSED", "SANITIZED">>

\* The handler returning without sending a response.
RespondMutant(r, status, body) ==
    /\ resp' = resp
    /\ pc' = [pc EXCEPT ![r] = "returned"]

\* res.status(status).json(body), or the settling of the promise of ai.ts
Respond(r, status, body) ==
    /\ resp' = [resp EXCEPT ![r] = Append(@, Response(status, body))]
    /\ pc' = [pc EXCEPT ![r] = "done"]

\* The outer catch of the handler; for ai.ts, the rejection of the promise.
Fail(r, msg) == Respond(r, IF impl = "ai" THEN "rejected" ELSE "500", ErrorBody(msg))

\* From the credential lookup to the first fetch.
Begin(r) ==
    IF ~HasKey(r)
    THEN /\ Fail(r, ConfigMsg(impl))
         /\ Mark(r, <<"FAILED">>)
         /\ UNCHANGED <<contents, calls>>
    ELSE /\ Mark(r, <<"DISPATCHED">>)
         /\ contents' = [contents EXCEPT ![r] =
                IF req[r].provider = "gemini"
                THEN BuildContents(impl, req[r].messages.list) ELSE @]
         /\ calls' = [calls EXCEPT ![r] = <<Candidates(impl, req[r].provider)[1]>>]
         /\ pc' = [pc EXCEPT ![r] = "fetch"]
         /\ UNCHANGED resp

Receive(r) ==
    /\ pc[r] = "received"
    /\ IF impl # "ai" /\ InvalidMessages(req[r].messages)
       THEN /\ Respond(r, "400", ErrorBody("Messages are required."))
            /\ Mark(r, <<"FAILED">>)
            /\ UNCHANGED <<contents, calls>>
       ELSE IF impl # "ai" /\ HasPool
       THEN /\ pc' = [pc EXCEPT ![r] = "userInsert"]
            /\ UNCHANGED <<resp, contents, calls, trail>>
       ELSE Begin(r)
    /\ UNCHANGED <<impl, env, active, req, outs, raw, reply, db>>
    /\ UNCHANGED <<fnVars, cl, ui>>

\* The insert without its own try: its rejection reaches the outer catch.
InsertThrowsMutant(ok) == ~ok

\* try { await pool.query(...) } catch (dbErr) { console.warn(...) }: whether the
\* rejection of an insert leaves the inner try.
InsertThrows(ok) == FALSE

\* The assistant row written from the raw text of the provider.
InsertRawMutant(r, role, content, ok) ==
    db' = Append(db, [by |-> r, role |-> role,
                      content |-> IF role = "assistant" THEN raw[r] ELSE content, ok |-> ok])

\* pool.query('INSERT INTO messages (role, content) VALUES ($1, $2)', [role, content])
Insert(r, role, content, ok) ==
    db' = Append(db, [by |-> r, role |-> role, content |-> content, ok |-> ok])

\* The first pool.query settles; its rejection is caught and logged.
UserInsertDone(r, ok) ==
    /\ pc[r] = "userInsert"
    /\ Insert(r, "user", Str(LastContent(r)), ok)
    /\ IF InsertThrows(ok)
       THEN Fail(r, "database error") /\ Mark(r, <<"FAILED">>) /\ UNCHANGED <<contents, calls>>
       ELSE Begin(r)
    /\ UNCHANGED <<impl, env, active, req, outs, raw, reply>>
    /\ UNCHANGED <<fnVars, cl, ui>>

\* The dispatch returned v and the parse and the upper-casing gave n: save or send.
FinishWith(r, v, n) ==
    LET st == Stages(impl, v, n.threw) IN
    /\ raw' = [raw EXCEPT ![r] = v]
    /\ IF n.threw
       THEN /\ Fail(r, n.msg)
            /\ Mark(r, st \o <<"FAILED">>)
            /\ UNCHANGED reply
       ELSE /\ reply' = [reply EXCEPT ![r] = n.v]
            /\ IF impl = "ai"
               THEN Respond(r, "resolved", n.v) /\ Mark(r, st \o <<"RETURNED">>)
               ELSE IF HasPool
               THEN /\ pc' = [pc EXCEPT ![r] = "asstInsert"]
                    /\ Mark(r, st)
                    /\ UNCHANGED resp
               ELSE Respond(r, "200", n.v) /\ Mark(r, st \o <<"RETURNED">>)

\* The dispatch returned v: parse, upper-case, and save or send.
Finish(r, v) == FinishWith(r, v, Normalize(impl, v))

\* A fetch settles with outcome o.
FetchDone(r, o) ==
    /\ pc[r] = "fetch"
    /\ outs' = [outs EXCEPT ![r] = Append(@, o)]
    /\ LET i == Len(calls[r])
           d == AfterFetch(impl, req[r].provider, i, o)
       IN
       CASE d.k = "continue" ->
              /\ calls' = [calls EXCEPT ![r] =
                              Append(@, Candidates(impl, req[r].provider)[i + 1])]
              /\ Mark(r, <<"FAILED_CANDIDATE", "DISPATCHED">>)
              /\ UNCHANGED <<pc, resp, raw, reply>>
         [] d.k = "throw" ->
              /\ Fail(r, d.msg)
              /\ Mark(r, IF req[r].provider = "gemini"
                         THEN <<"FAILED_CANDIDATE", "EXHAUSTED", "FAILED">>
                         ELSE <<"FAILED_CANDIDATE", "FAILED">>)
              /\ UNCHANGED <<calls, raw, reply>>
         [] OTHER ->
              /\ Finish(r, d.v)
              /\ UNCHANGED calls
    /\ UNCHANGED <<impl, env, active, req, contents, db>>
    /\ UNCHANGED <<fnVars, cl, ui>>

\* The second pool.query settles; then res.json.
AsstInsertDone(r, ok) ==
    /\ pc[r] = "asstInsert"
    /\ Insert(r, "assistant", Get(reply[r], "text"), ok)
    /\ IF InsertThrows(ok)
       THEN Fail(r, "database error") /\ Mark(r, <<"FAILED">>)
       ELSE Respond(r, "200", reply[r]) /\ Mark(r, <<"RETURNED">>)
    /\ UNCHANGED <<impl, env, active, req, contents, calls, outs, raw, reply>>
    /\ UNCHANGED <<fnVars, cl, ui>>

\* No client in front of the handler.
ClientOff == [pc |-> "off", apiKey |-> FALSE, calls |-> <<>>, outs |-> <<>>, result |-> <<>>]

\* No front end in front of the handler.
FrontEndOff == [rev |-> "off", apiKey |-> FALSE, n |-> 0, history |-> <<>>, pending |-> {}]

IdleFn == fnPc = "off" /\ fnArg = <<>> /\ fnRes = <<>>

InitRequests(act) ==
    /\ active = act
    /\ pc = [r \in Reqs |-> IF r \in act THEN "received" ELSE "idle"]
    /\ contents = [r \in Reqs |-> <<>>]
    /\ calls = [r \in Reqs |-> <<>>]
    /\ outs = [r \in Reqs |-> <<>>]
    /\ raw = [r \in Reqs |-> Undef]
    /\ reply = [r \in Reqs |-> Undef]
    /\ resp = [r \in Reqs |-> <<>>]
    /\ db = <<>>
    /\ trail = [r \in Reqs |-> IF r \in act THEN <<"RECEIVED">> ELSE <<>>]

Init ==
    /\ impl \in Impls
    /\ env \in EnvChoices(impl)
    /\ req \in {[r \in Reqs |-> IF r = 1 THEN q ELSE IdleRequest] : q \in Requests(impl)}
    /\ InitRequests({1})
    /\ cl = ClientOff
    /\ IdleFn
    /\ ui = FrontEndOff

Next ==
    \/ \E r \in active : Receive(r)
    \/ \E r \in active, ok \in BOOLEAN : UserInsertDone(r, ok)
    \/ \E r \in active, o \in Outcomes : FetchDone(r, o)
    \/ \E r \in active, ok \in BOOLEAN : AsstInsertDone(r, ok)

Spec == Init /\ [][Next]_vars

(***************************************************************************)
(* Two requests with the same body in flight at once.                      *)
(***************************************************************************)
AllEnv == KeyNames \cup {"DATABASE_URL"}

TwoOutcomes == {Transport, Ok(Str(RawObjText)), Ok(Str(RawNull))}

InitTwo ==
    /\ impl \in Impls \ {"ai"}
    /\ env \in {AllEnv, {"DATABASE_URL"}}
    /\ req \in {[r \in Reqs |-> Request(Array(ms), p, FALSE)] :
                    ms \in MsgLists(1), p \in {"gemini", "groq"}}
    /\ InitRequests(Reqs)
    /\ cl = ClientOff
    /\ IdleFn
    /\ ui = FrontEndOff

NextTwo ==
    \/ \E r \in active : Receive(r)
    \/ \E r \in active, ok \in BOOLEAN : UserInsertDone(r, ok)
    \/ \E r \in active, o \in TwoOutcomes : FetchDone(r, o)
    \/ \E r \in active, ok \in BOOLEAN : AsstInsertDone(r, ok)

SpecTwo == InitTwo /\ [][NextTwo]_vars

(***************************************************************************)
(* Two requests with different bodies in flight at once.                   *)
(***************************************************************************)
PairOutcomes == {Transport, Ok(Str(RawObjText)), Ok(Str(RawProse))}

InitPair ==
    /\ impl \in Impls \ {"ai"}
    /\ env \in {AllEnv, {"DATABASE_URL", "GEMINI_API_KEY"}}
    /\ req \in {[r \in Reqs |-> IF r = 1 THEN Request(Array(ms), "gemini", FALSE)
                                ELSE Request(Array(ms), p, FALSE)] :
                    ms \in MsgLists(1), p \in {"groq", "unknown"}}
    /\ InitRequests(Reqs)
    /\ cl = ClientOff
    /\ IdleFn
    /\ ui = FrontEndOff

NextPair ==
    \/ \E r \in active : Receive(r)
    \/ \E r \in active, ok \in BOOLEAN : UserInsertDone(r, ok)
    \/ \E r \in active, o \in PairOutcomes : FetchDone(r, o)
    \/ \E r \in active, ok \in BOOLEAN : AsstInsertDone(r, ok)

SpecPair == InitPair /\ [][NextPair]_vars

(***************************************************************************)
(* One request that carries a conversation of several messages.            *)
(***************************************************************************)
HistoryOutcomes ==
    {Transport, Ok(Str(RawObjText)), Ok(Str(RawObjNumber)), Ok(Str(RawObjResponse))}

InitHistory ==
    /\ impl \in Impls \ {"ai"}
    /\ env \in {AllEnv, {"DATABASE_URL"}}
    /\ req \in {[r \in Reqs |-> IF r = 1 THEN Request(Array(ms), p, FALSE) ELSE IdleRequest] :
                    ms \in MsgLists(MaxHistoryMsgs), p \in Providers}
    /\ InitRequests({1})
    /\ cl = ClientOff
    /\ IdleFn
    /\ ui = FrontEndOff

NextHistory ==
    \/ \E r \in active : Receive(r)
    \/ \E r \in active, ok \in BOOLEAN : UserInsertDone(r, ok)
    \/ \E r \in active, o \in HistoryOutcomes : FetchDone(r, o)
    \/ \E r \in active, ok \in BOOLEAN : AsstInsertDone(r, ok)

SpecHistory == InitHistory /\ [][NextHistory]_vars

(***************************************************************************)
(* The handler when every fetch and every insert settles: the scheduler    *)
(* runs the continuation of each settled await.                            *)
(***************************************************************************)
InitLive ==
    /\ impl \in Impls \ {"ai"}
    /\ env \in EnvChoices(impl)
    /\ req \in {[r \in Reqs |-> IF r = 1 THEN Request(m, p, FALSE) ELSE IdleRequest] :
                    m \in {Missing, Array(<<>>)} \cup {Array(ms) : ms \in MsgLists(1)},
                    p \in Providers}
    /\ InitRequests({1})
    /\ cl = ClientOff
    /\ IdleFn
    /\ ui = FrontEndOff

SpecLive == InitLive /\ [][Next]_vars /\ WF_vars(Next)

(***************************************************************************)
(* The handler when a fetch or an insert may never settle.  The source     *)
(* sets no timer and no abort signal on either, so nothing resumes a       *)
(* request that waits on such a promise.                                   *)
(***************************************************************************)
\* await fetch(...) on a provider that never answers
FetchStalls(r) ==
    /\ pc[r] = "fetch"
    /\ pc' = [pc EXCEPT ![r] = "fetchStalled"]
    /\ UNCHANGED <<impl, env, active, req, contents, calls, outs, raw, reply, resp, db, trail>>
    /\ UNCHANGED <<fnVars, cl, ui>>

\* await pool.query(...) on a database that never answers
InsertStalls(r) ==
    /\ pc[r] \in {"userInsert", "asstInsert"}
    /\ pc' = [pc EXCEPT ![r] = IF @ = "userInsert" THEN "userInsertStalled"
                                ELSE "asstInsertStalled"]
    /\ UNCHANGED <<impl, env, active, req, contents, calls, outs, raw, reply, resp, db, trail>>
    /\ UNCHANGED <<fnVars, cl, ui>>

NextStall ==
    \/ \E r \in active : Receive(r)
    \/ \E r \in active, ok \in BOOLEAN : UserInsertDone(r, ok)
    \/ \E r \in active, o \in Outcomes : FetchDone(r, o)
    \/ \E r \in active, ok \in BOOLEAN : AsstInsertDone(r, ok)
    \/ \E r \in active : FetchStalls(r)
    \/ \E r \in active : InsertStalls(r)

SpecStall == Init /\ [][NextStall]_vars /\ WF_vars(NextStall)

(***************************************************************************)
(* The browser client of part_003 (its second revision, lines 168-308): it *)
(* posts the chat to the backend first and, when that fails, calls the     *)
(* provider itself.  Request 1 is the request it posted.                   *)
(***************************************************************************)
\* const models = [...] of fetchGemini
ClientModels == <<"gemini-1.5-flash", "gemini-1.5-flash-latest", "gemini-pro">>

ClientCandidates(provider) ==
    CASE provider = "gemini" -> ClientModels
      [] provider = "groq" -> <<"llama-3.3-70b-versatile">>
      [] OTHER -> <<"gpt-3.5-turbo">>

\* apiKey || (provider === 'gemini' ? DEFAULT_GEMINI_KEY : '')
EffectiveKey(provider) == cl.apiKey \/ provider = "gemini"

\* e.message.includes("SERVER ERROR"): of the messages of the backends only the
\* configuration error of the second revision of part_000 holds these words.
IncludesServerError(v) == v = Str(<<ConfigMsg("vercel")>>)

\* One iteration of the loop of fetchGemini: any ok status ends it.
ClientGeminiStep(o) ==
    IF o.kind = "ok" THEN Return(Or(o.content, Str(<<"NO RESPONSE">>))) ELSE Continue

\* fetchGroq and fetchOpenAI
ClientSingleStep(provider, o) ==
    CASE o.kind = "transport" -> Throw("fetch failed")
      [] o.kind = "notok" ->
           Throw(IF provider = "groq" THEN "Groq API Error" ELSE "OpenAI API Error")
      [] OTHER -> Return(Or(o.content, Str(<<>>)))

ClientAfterFetch(provider, i, o) ==
    IF provider = "gemini" THEN
        LET g == ClientGeminiStep(o) IN
        IF g.k = "continue" /\ i >= Len(ClientModels)
        THEN Throw("GEMINI API REJECTED REQUEST. CHECK KEY PERMISSIONS.")
        ELSE g
    ELSE ClientSingleStep(provider, o)

ClientResolves(text) ==
    cl' = [cl EXCEPT !.pc = "done", !.result = <<Response("resolved", TextAndIntent(text))>>]

ClientRejects(msg) ==
    cl' = [cl EXCEPT !.pc = "done", !.result = <<Response("rejected", msg)>>]

\* 2. Client-Side Fallback
ClientFallback ==
    IF ~EffectiveKey(req[1].provider)
    THEN ClientRejects(Str(<<"MISSING API KEY">>))
    ELSE cl' = [cl EXCEPT !.pc = "fetch",
                          !.calls = <<ClientCandidates(req[1].provider)[1]>>]

\* The fetch of /api/chat rejects: the handler never sees the request.
ClientBackendUnreachable ==
    /\ cl.pc = "backend"
    /\ pc[1] = "received"
    /\ pc' = [pc EXCEPT ![1] = "unreachable"]
    /\ ClientFallback
    /\ UNCHANGED <<impl, env, active, req, contents, calls, outs, raw, reply, resp, db, trail>>
    /\ UNCHANGED <<fnVars, ui>>

\* The backend answered: its text on an ok status, else the fallback, unless the
\* error is a configuration error of the server.
ClientBackendAnswered ==
    /\ cl.pc = "backend"
    /\ pc[1] = "done"
    /\ LET a == resp[1][1] IN
       IF a.status = "200" THEN ClientResolves(Get(a.body, "text"))
       ELSE IF Truthy(Get(a.body, "error")) /\ IncludesServerError(Get(a.body, "error"))
       THEN ClientRejects(Get(a.body, "error"))
       ELSE ClientFallback
    /\ UNCHANGED handlerVars
    /\ UNCHANGED <<fnVars, ui>>

\* A fetch of the client settles with outcome o.
ClientFetchDone(o) ==
    /\ cl.pc = "fetch"
    /\ LET i == Len(cl.calls)
           d == ClientAfterFetch(req[1].provider, i, o)
       IN
       CASE d.k = "continue" ->
              cl' = [cl EXCEPT !.outs = Append(@, o),
                               !.calls = Append(@, ClientCandidates(req[1].provider)[i + 1])]
         [] d.k = "throw" ->
              cl' = [cl EXCEPT !.outs = Append(@, o), !.pc = "done",
                               !.result = <<Response("rejected",
                                              Str(<<"CLIENT FALLBACK ERROR: ", d.msg>>))>>]
         [] OTHER ->
              cl' = [cl EXCEPT !.outs = Append(@, o), !.pc = "done",
                               !.result = <<Response("resolved", TextAndIntent(d.v))>>]
    /\ UNCHANGED handlerVars
    /\ UNCHANGED <<fnVars, ui>>

ClientOutcomes == {Transport, NotOk, Ok(Undef), Ok(Str(RawObjText))}

InitClient ==
    /\ impl \in {"smart", "vercel"}
    /\ env \in {AllEnv, {"DATABASE_URL"}}
    /\ req \in {[r \in Reqs |-> IF r = 1 THEN Request(Array(ms), p, FALSE) ELSE IdleRequest] :
                    ms \in MsgLists(1), p \in {"gemini", "groq"}}
    /\ InitRequests({1})
    /\ cl \in {[ClientOff EXCEPT !.pc = "backend", !.apiKey = k] : k \in BOOLEAN}
    /\ IdleFn
    /\ ui = FrontEndOff

NextClient ==
    \/ \E r \in active : Receive(r)
    \/ \E r \in active, ok \in BOOLEAN : UserInsertDone(r, ok)
    \/ \E r \in active, o \in ClientOutcomes : FetchDone(r, o)
    \/ \E r \in active, ok \in BOOLEAN : AsstInsertDone(r, ok)
    \/ ClientBackendUnreachable
    \/ ClientBackendAnswered
    \/ \E o \in ClientOutcomes : ClientFetchDone(o)

SpecClient == InitClient /\ [][NextClient]_vars

(***************************************************************************)
(* The browser front end: handleFinalTranscript of src/src/main.ts, which  *)
(* always answers from the demo responses, and of its earlier revision in  *)
(* src/unnamed/part_005, which calls getAIResponse when an API key is set. *)
(* The speech recognition calls it on every final transcript; nothing      *)
(* keeps the user from starting the recognition again while an earlier     *)
(* transcript waits for its reply.                                         *)
(***************************************************************************)
FrontEnds == {"main", "part_005"}

Message(role, k) == [role |-> role, content |-> k]

\* if (apiKey) of part_005; main.ts has no such branch.
UsesAI == ui.rev = "part_005" /\ ui.apiKey

\* handleFinalTranscript up to its await: a blank transcript returns at once,
\* any other one is pushed on conversationHistory and waits for its reply.
FinalTranscript(blank) ==
    /\ ui.rev \in FrontEnds
    /\ ui.n < MaxTranscripts
    /\ ui' = IF blank THEN [ui EXCEPT !.n = @ + 1]
             ELSE [ui EXCEPT !.n = @ + 1,
                             !.history = Append(@, Message("user", ui.n + 1)),
                             !.pending = @ \cup {[k |-> ui.n + 1, ai |-> UsesAI]}]
    /\ UNCHANGED <<handlerVars, cl, fnVars>>

\* The timer of the demo mode fires, or getAIResponse resolves: the reply is
\* pushed on conversationHistory.
ReplyArrives(p) ==
    /\ p \in ui.pending
    /\ ui' = [ui EXCEPT !.history = Append(@, Message("assistant", p.k)),
                        !.pending = @ \ {p}]
    /\ UNCHANGED <<handlerVars, cl, fnVars>>

\* getAIResponse rejects: the catch shows an error bubble and pushes nothing.
ReplyFails(p) ==
    /\ p \in ui.pending
    /\ p.ai
    /\ ui' = [ui EXCEPT !.pending = @ \ {p}]
    /\ UNCHANGED <<handlerVars, cl, fnVars>>

InitFront ==
    /\ impl = "server"
    /\ env = {}
    /\ req = [r \in Reqs |-> IdleRequest]
    /\ InitRequests({})
    /\ cl = ClientOff
    /\ IdleFn
    /\ ui \in {[FrontEndOff EXCEPT !.rev = v, !.apiKey = k] : v \in FrontEnds, k \in BOOLEAN}

NextFront ==
    \/ \E blank \in BOOLEAN : FinalTranscript(blank)
    \/ \E p \in ui.pending : ReplyArrives(p)
    \/ \E p \in ui.pending : ReplyFails(p)

SpecFront == InitFront /\ [][NextFront]_vars

(***************************************************************************)
(* The pure functions, applied to every input within the bounds.           *)
(***************************************************************************)
IdleHandler ==
    /\ env = {}
    /\ req = [r \in Reqs |-> IdleRequest]
    /\ InitRequests({})
    /\ cl = ClientOff
    /\ ui = FrontEndOff

SeqsUpTo(S, n) == UNION {[1..k -> S] : k \in 0..n}

TextAlphabet == {"a", "A", "ß", "S", WS, LB, "\"text\"", "5"}

InitText ==
    /\ impl = "server"
    /\ IdleHandler
    /\ fnPc = "text"
    /\ fnArg \in SeqsUpTo(TextAlphabet, MaxTextLen)
    /\ fnRes = <<>>

SanitizeOnce ==
    /\ fnPc = "text"
    /\ fnRes' = <<sanitize(fnArg)>>
    /\ fnPc' = "sanitized"
    /\ UNCHANGED <<fnArg, handlerVars, cl, ui>>

SanitizeAgain ==
    /\ fnPc = "sanitized"
    /\ fnRes' = Append(fnRes, sanitize(fnRes[1]))
    /\ fnPc' = "sanitizedTwice"
    /\ UNCHANGED <<fnArg, handlerVars, cl, ui>>

NextText == SanitizeOnce \/ SanitizeAgain

SpecText == InitText /\ [][NextText]_vars

InitTurns ==
    /\ impl \in Impls
    /\ IdleHandler
    /\ fnPc = "messages"
    /\ fnArg \in MsgListsUpTo(MaxTurnMsgs) \ {<<>>}
    /\ fnRes = <<>>

BuildTurns ==
    /\ fnPc = "messages"
    /\ fnRes' = BuildContents(impl, fnArg)
    /\ fnPc' = "turns"
    /\ UNCHANGED <<fnArg, handlerVars, cl, ui>>

NextTurns == BuildTurns

SpecTurns == InitTurns /\ [][NextTurns]_vars

\* The parsers of the four revisions on every short raw text and on the longer
\* ones a provider may generate.
RawAlphabet == {"a", WS, LB, RB, FENCE, "\"text\"", COLON, "\"A\""}

ParseRaws ==
    SeqsUpTo(RawAlphabet, MaxRawLen) \cup HandlerRaws
        \cup {RawProseThenObj, RawProseTruncated, RawProseInvalid, RawObjError}
        \cup {RawTextResponse, RawResponseMessage, RawMessageResponseText}
        \cup {RawProseObjProse, RawProseObj, RawTwoObjects, RawProseTwoObjects}

InitParse ==
    /\ impl \in Impls
    /\ IdleHandler
    /\ fnPc = "raw"
    /\ fnArg \in ParseRaws
    /\ fnRes = <<>>

NormalizeRaw ==
    /\ fnPc = "raw"
    /\ fnRes' = <<Normalize(impl, Str(fnArg))>>
    /\ fnPc' = "normalized"
    /\ UNCHANGED <<fnArg, handlerVars, cl, ui>>

\* The same raw text through the parser of the earlier revision of ai.ts.
NormalizeEarlier ==
    /\ fnPc = "raw"
    /\ impl = "ai"
    /\ fnRes' = <<parseAIResponseEarlier(Str(fnArg))>>
    /\ fnPc' = "normalizedEarlier"
    /\ UNCHANGED <<fnArg, handlerVars, cl, ui>>

NextParse == NormalizeRaw \/ NormalizeEarlier

SpecParse == InitParse /\ [][NextParse]_vars

(***************************************************************************)
(* Vocabulary of the properties.                                           *)
(***************************************************************************)
Done(r) == pc[r] = "done"

HasField(v, k) == v.t = "object" /\ k \in DOMAIN v.f /\ v.f[k].t # "undefined"

SuccessStatus == IF impl = "ai" THEN "resolved" ELSE "200"

FailStatus == IF impl = "ai" THEN "rejected" ELSE "500"

\* The outcomes the specification counts as the failure of a candidate.
CandidateFailed(o) == o.kind \in {"transport", "notok"} \/ (o.kind = "ok" /\ o.content.t = "undefined")

\* A candidate that came back with a non-empty text.
CandidateSucceeded(o) == o.kind = "ok" /\ o.content.t = "string" /\ o.content.s # <<>>

\* Every endpoint of the provider was fetched and every fetch failed.
AllCandidatesFailed(r) ==
    /\ Len(outs[r]) = Len(Candidates(impl, req[r].provider))
    /\ \A j \in 1..Len(outs[r]) : CandidateFailed(outs[r][j])

\* The credential of the requested provider is not there.
KeyAbsent(r) ==
    IF impl = "ai" THEN ~req[r].apiKey
    ELSE \/ req[r].provider = "gemini" /\ "GEMINI_API_KEY" \notin env
         \/ req[r].provider = "groq" /\ "GROQ_API_KEY" \notin env
         \/ req[r].provider \notin {"gemini", "groq"} /\ "OPENAI_API_KEY" \notin env

\* messages is missing, not a list, or an empty list.
BadMessages(r) == req[r].messages.kind # "array" \/ req[r].messages.list = <<>>

InsertsBy(r) == SelectSeq(db, LAMBDA e : e.by = r)

(***************************************************************************)
(* C1.  Every request to the chat handler gets exactly one response, and   *)
(* that response is either a success body with text (and perhaps intent)   *)
(* or a failure body with error: never both fields, never a success body   *)
(* without text.                                                           *)
(***************************************************************************)
C1_OneWellFormedResponse ==
    \A r \in active :
        impl # "ai" =>
            /\ Len(resp[r]) = IF Done(r) THEN 1 ELSE 0
            /\ Done(r) =>
                 LET b == resp[r][1].body IN
                 IF resp[r][1].status = "200"
                 THEN HasField(b, "text") /\ ~HasField(b, "error")
                 ELSE HasField(b, "error") /\ ~HasField(b, "text")

(***************************************************************************)
(* C2.  When the first k-1 candidates of the Gemini list fail and the k-th *)
(* is the first to come back with a non-empty text, exactly k fetches were *)
(* made, on the candidates 1..k in this order, and the raw text returned   *)
(* is the k-th candidate's.  While the dispatch runs the fetches made are  *)
(* a prefix of the list, one ahead of the outcomes seen.                   *)
(***************************************************************************)
C2_FallbackOrder ==
    \A r \in active :
        req[r].provider = "gemini" =>
            LET k == Len(outs[r])
                models == GeminiModels(impl)
            IN
            /\ Len(calls[r]) <= Len(models)
            /\ calls[r] = SubSeq(models, 1, Len(calls[r]))
            /\ Len(calls[r]) = IF pc[r] = "fetch" THEN k + 1 ELSE k
            /\ \A j \in 1..(k - 1) : ~CandidateSucceeded(outs[r][j])
            /\ (k > 0 /\ CandidateSucceeded(outs[r][k])) =>
                 /\ pc[r] # "fetch"
                 /\ raw[r] = outs[r][k].content
            /\ raw[r].t # "undefined" =>
                 /\ k > 0
                 /\ CandidateSucceeded(outs[r][k])

C2_Witness ==
    \E r \in active :
        /\ req[r].provider = "gemini"
        /\ Done(r)
        /\ calls[r] = GeminiModels(impl)
        /\ outs[r][1] = Transport
        /\ outs[r][2] = NotOk
        /\ raw[r] = Str(RawObjText)

C4_NoKeyNoCall ==
    \A r \in active :
        KeyAbsent(r) =>
            /\ calls[r] = <<>>
            /\ outs[r] = <<>>
            /\ pc[r] \notin {"fetch", "asstInsert"}
            /\ (Done(r) /\ (impl = "ai" \/ ~BadMessages(r))) =>
                 resp[r] = <<Response(FailStatus, ErrorBody(ConfigMsg(impl)))>>

C4_Witness ==
    \E r \in active :
        /\ impl = "server"
        /\ req[r].provider = "gemini"
        /\ env = {"GROQ_API_KEY", "OPENAI_API_KEY"}
        /\ Done(r)
        /\ Len(InsertsBy(r)) = 1
        /\ resp[r][1].status = "500"

(***************************************************************************)
(* C5.  Every success reply has a text field that is a string, whatever    *)
(* raw text reached the parser.                                            *)
(***************************************************************************)
C5_TextIsString ==
    \A r \in active :
        (Done(r) /\ raw[r].t = "string" /\ resp[r][1].status = SuccessStatus) =>
            /\ HasField(resp[r][1].body, "text")
            /\ resp[r][1].body.f["text"].t = "string"

(***************************************************************************)
(* C6.  Normalisation never throws: a request whose candidate came back    *)
(* with a raw text ends with a success reply, never with an error.         *)
(***************************************************************************)
C6_ParseNeverFails ==
    \A r \in active :
        (Done(r) /\ raw[r].t = "string" /\ raw[r].s # <<>>) =>
            resp[r][1].status = SuccessStatus

(***************************************************************************)
(* C7.  The turn list built for the two-role provider never has two        *)
(* adjacent turns of the same role.                                        *)
(***************************************************************************)
C7_TurnsAlternate ==
    fnPc = "turns" =>
        \A i \in 1..(Len(fnRes) - 1) : fnRes[i].role # fnRes[i + 1].role

(***************************************************************************)
(* C8.  A chat request whose messages are missing, not a list or empty is  *)
(* answered 400 with an error body, with no insert and no fetch made for   *)
(* it; a missing credential and a provider whose candidates all fail are   *)
(* answered 500.                                                           *)
(***************************************************************************)
C8_StatusCodes ==
    \A r \in active :
        impl # "ai" =>
            /\ BadMessages(r) =>
                 /\ calls[r] = <<>>
                 /\ InsertsBy(r) = <<>>
                 /\ pc[r] \in {"received", "done"}
                 /\ Done(r) =>
                      /\ Len(resp[r]) = 1
                      /\ resp[r][1].status = "400"
                      /\ HasField(resp[r][1].body, "error")
                      /\ ~HasField(resp[r][1].body, "text")
            /\ (~BadMessages(r) /\ Done(r) /\ (KeyAbsent(r) \/ AllCandidatesFailed(r))) =>
                 /\ resp[r][1].status = "500"
                 /\ HasField(resp[r][1].body, "error")
            /\ (Done(r) /\ resp[r][1].status = "400") => BadMessages(r)

C8_Witness ==
    \E r \in active :
        /\ impl = "server"
        /\ req[r].messages = Array(<<>>)
        /\ req[r].provider = "gemini"
        /\ "GEMINI_API_KEY" \in env
        /\ Done(r)
        /\ resp[r][1].status = "400"

(***************************************************************************)
(* C9.  A failing insert never changes the response: two requests with the *)
(* same body whose fetches came back the same are answered the same,       *)
(* whichever of their inserts failed.                                      *)
(***************************************************************************)
C9_InsertFailureInvisible ==
    \A r1, r2 \in active :
        (Done(r1) /\ Done(r2) /\ req[r1] = req[r2] /\ outs[r1] = outs[r2]) =>
            resp[r1] = resp[r2]

C9_Witness ==
    /\ Done(1) /\ Done(2)
    /\ outs[1] = outs[2]
    /\ resp[1][1].status = "200"
    /\ Len(InsertsBy(1)) = 2
    /\ \A i \in 1..2 : ~InsertsBy(1)[i].ok
    /\ Len(InsertsBy(2)) = 2
    /\ \A i \in 1..2 : InsertsBy(2)[i].ok

(***************************************************************************)
(* C10.  The output sanitizer is idempotent: sanitising a sanitised text   *)
(* leaves it as it is.                                                     *)
(***************************************************************************)
C10_SanitizeIdempotent ==
    fnPc = "sanitizedTwice" => fnRes[2] = fnRes[1]

C10_Witness ==
    /\ fnPc = "sanitizedTwice"
    /\ fnArg = <<"a", "ß", "A">>
    /\ fnRes[1] = <<"A", "S", "S", "A">>

(***************************************************************************)
(* C11.  End to end: a request of one user message whose provider call     *)
(* succeeds with a raw text that is exactly a JSON object with a text      *)
(* field T already in upper case is answered 200 with the text T.          *)
(***************************************************************************)
SingleUserMessage(r) ==
    /\ req[r].messages.kind = "array"
    /\ Len(req[r].messages.list) = 1
    /\ req[r].messages.list[1].role = "user"

\* v is a raw text that is one JSON object whose text field is a non-empty
\* string equal to its own upper-case form.
ObjectWithUpperText(v) ==
    /\ v.t = "string"
    /\ LET j == JSONparse(v.s) IN
       /\ ~j.threw
       /\ j.v.t = "object"
       /\ Get(j.v, "text").t = "string"
       /\ Get(j.v, "text").s # <<>>
       /\ toUpperCase(Get(j.v, "text").s) = Get(j.v, "text").s

OnlyFencesAndBraces(s) == \A i \in 1..Len(s) : s[i] \in {FENCE, FENCEJSON, LB, RB}

C12_PlaceholderForEmpty ==
    (fnPc = "normalized" /\ impl \in {"smart", "vercel"}) =>
        LET n == fnRes[1] IN
        /\ ~n.threw => Get(n.v, "text") # Str(<<>>)
        /\ (OnlyFencesAndBraces(fnArg) \/ fnArg = RawObjError) =>
             /\ ~n.threw
             /\ Get(n.v, "text") = Str(<<Placeholder>>)

(***************************************************************************)
(* C13.  When the raw text is prose around one parsable JSON object with   *)
(* one recognized field, the reply text is the value of that field (in     *)
(* upper case where the revision upper-cases), not the prose.              *)
(***************************************************************************)
Recognized == {"text", "response", "message"}

\* The object between the first "{" and the last "}" of s, when it parses.
EmbeddedObject(s) == JSONparse(SubSeq(s, MatchFrom(s), MatchTo(s)))

\* s is prose, with no brace in it, around one object that parses and has
\* exactly one recognized field, a non-empty string.
ProseAroundObject(s) ==
    /\ HasMatch(s)
    /\ trim(SubSeq(s, 1, MatchFrom(s) - 1) \o SubSeq(s, MatchTo(s) + 1, Len(s))) # <<>>
    /\ LET j == EmbeddedObject(s) IN
       /\ ~j.threw
       /\ j.v.t = "object"
       /\ Cardinality({k \in Recognized : Truthy(Get(j.v, k))}) = 1
       /\ \A k \in Recognized : Truthy(Get(j.v, k)) => Get(j.v, k).t = "string"

RecognizedValue(s) ==
    LET o == EmbeddedObject(s).v
        k == CHOOSE k \in Recognized : Truthy(Get(o, k))
    IN Get(o, k).s

C13_EmbeddedFieldWins ==
    (fnPc = "normalized" /\ ProseAroundObject(fnArg)) =>
        LET n == fnRes[1] IN
        /\ ~n.threw
        /\ Get(n.v, "text") =
             Str(IF impl = "ai" THEN RecognizedValue(fnArg)
                 ELSE sanitize(RecognizedValue(fnArg)))

(***************************************************************************)
(* C14.  In the first revision of part_000, when the raw text has a "{"    *)
(* whose payload is truncated or does not parse, normalisation does not    *)
(* throw and the reply text is the prose before the first "{", trimmed     *)
(* (and upper-cased).                                                      *)
(***************************************************************************)
InvalidPayload(s) ==
    /\ IndexOf(s, LB) > 0
    /\ \/ ~HasMatch(s)
       \/ JSONparse(trim(StripFences(SubSeq(s, MatchFrom(s), MatchTo(s))))).threw

C14_TruncatedGivesProse ==
    (fnPc = "normalized" /\ impl = "smart" /\ InvalidPayload(fnArg)) =>
        LET n == fnRes[1] IN
        /\ ~n.threw
        /\ Get(n.v, "text") = Str(sanitize(trim(BeforeBrace(fnArg))))

(***************************************************************************)
(* C15.  For every provider, the single-candidate ones included, a fetch   *)
(* that rejects, a non-success status and a success envelope without text  *)
(* are failures of the candidate: the next candidate is fetched while      *)
(* there is one, and when there is none the dispatch fails; a success      *)
(* envelope without text never ends in a success reply.                    *)
(***************************************************************************)
C15_MissingTextIsFailure ==
    \A r \in active :
        /\ \A j \in 1..Len(outs[r]) :
               (CandidateFailed(outs[r][j]) /\ j < Len(Candidates(impl, req[r].provider))) =>
                   Len(calls[r]) > j
        /\ (Done(r) /\ AllCandidatesFailed(r)) =>
               /\ resp[r][1].status = FailStatus
               /\ ~HasField(resp[r][1].body, "text")

(***************************************************************************)
(* C16.  Within one request at most one provider fetch is in flight; a     *)
(* candidate is fetched only when every candidate before it has come back  *)
(* as a failure; and once a candidate has come back with a non-empty text  *)
(* no further candidate is fetched.                                        *)
(***************************************************************************)
InFlight(r) == Len(calls[r]) - Len(outs[r])

C16_OneCallAtATime ==
    \A r \in active :
        /\ InFlight(r) \in {0, 1}
        /\ InFlight(r) = 1 <=> pc[r] = "fetch"
        /\ \A j \in 1..(Len(calls[r]) - 1) :
               /\ j <= Len(outs[r])
               /\ ~CandidateSucceeded(outs[r][j])
        /\ (outs[r] # <<>> /\ CandidateSucceeded(outs[r][Len(outs[r])])) => InFlight(r) = 0

C16_Witness ==
    \E r \in active :
        /\ impl = "ai"
        /\ req[r].provider = "gemini"
        /\ Done(r)
        /\ outs[r] = <<NotOk, Ok(Str(RawObjText))>>
        /\ calls[r] = SubSeq(GeminiModels(impl), 1, 2)
        /\ resp[r][1].status = "resolved"

(***************************************************************************)
(* C17.  For one chat request no provider endpoint is fetched twice and    *)
(* the fetches made are at most as many as the provider has candidates,    *)
(* counting the fetches of the backend and those of the client that sent   *)
(* the request: a failed chain is not started again by another path.       *)
(***************************************************************************)
\* Every provider fetch made for the chat request the client sent.
AllCalls == calls[1] \o cl.calls

C17_NoRetry ==
    /\ Len(AllCalls) <= Len(Candidates(impl, req[1].provider))
    /\ \A i, j \in 1..Len(AllCalls) : i # j => AllCalls[i] # AllCalls[j]

(***************************************************************************)
(* C18.  A candidate fetch that never answers is ended by a timeout: the   *)
(* request that waits on it goes on, to the next candidate or to its end,  *)
(* and reaches a terminal state.                                           *)
(***************************************************************************)
C18_StalledFetchEnds ==
    \A r \in Reqs : (pc[r] = "fetchStalled") ~> Done(r)

(***************************************************************************)
(* C19.  The inserts are fire-and-forget: an insert that never completes   *)
(* does not keep the request from its dispatch and from its response.      *)
(***************************************************************************)
C19_StalledInsertDoesNotBlock ==
    \A r \in Reqs : (pc[r] \in {"userInsertStalled", "asstInsertStalled"}) ~> Done(r)

(***************************************************************************)
(* C20.  When every fetch and every insert settles, every request of the   *)
(* server handler reaches a terminal stage, RETURNED or FAILED, exactly    *)
(* once and as its last stage; and RETURNED comes only right after         *)
(* SUCCESS, PARSED, SANITIZED in this order.                               *)
(***************************************************************************)
Terminal == {"RETURNED", "FAILED"}

StagesInOrder(r) ==
    LET t == trail[r]
        n == Len(t)
    IN
    /\ n > 0 /\ t[1] = "RECEIVED"
    /\ \A i \in 1..(n - 1) : t[i] \notin Terminal
    /\ Done(r) <=> t[n] \in Terminal
    /\ Done(r) => /\ Len(resp[r]) = 1
                  /\ resp[r][1].status = "200" <=> t[n] = "RETURNED"
    /\ t[n] = "RETURNED" =>
          /\ n >= 5
          /\ SubSeq(t, n - 3, n) = <<"SUCCESS", "PARSED", "SANITIZED", "RETURNED">>

TurnTexts(ts) == Flatten([k \in 1..Len(ts) |-> ts[k].text])

\* The contents of the messages, one after the other.
MessageTexts(ms) == Flatten([i \in 1..Len(ms) |-> ms[i].content])

ContentTokens == {ContentAt(i)[1] : i \in 1..6}

IsContent(tk) == tk \in ContentTokens

C21_NothingDropped ==
    fnPc = "turns" =>
        SelectSeq(TurnTexts(fnRes), IsContent) = MessageTexts(fnArg)

(***************************************************************************)
(* C22.  In the turn builder that tags system messages, the content of     *)
(* every system message is in the turn list right after the tag; no turn   *)
(* but the first one begins with a system message, and a first turn that   *)
(* does is a user turn.                                                    *)
(***************************************************************************)
\* The positions of the message list that hold a system message.
SystemPositions(ms) == {i \in 1..Len(ms) : ms[i].role = "system"}

\* The content of the i-th message stands in the text right after the tag.
TaggedIn(text, i) ==
    \E p \in 1..(Len(text) - 1) :
        text[p] = SYSTEMTAG /\ text[p + 1] = ContentAt(i)[1]

OpensWithSystem(turn) == turn.text # <<>> /\ Head(turn.text) = SYSTEMTAG

C22_SystemNeverStandalone ==
    (fnPc = "turns" /\ impl = "ai") =>
        /\ \A i \in SystemPositions(fnArg) : TaggedIn(TurnTexts(fnRes), i)
        /\ \A k \in 2..Len(fnRes) : ~OpensWithSystem(fnRes[k])
        /\ (Len(fnRes) > 0 /\ OpensWithSystem(fnRes[1])) => fnRes[1].role = "user"

(***************************************************************************)
(* C23.  When the whole trimmed raw text parses as one JSON object, the    *)
(* reply text is the first non-empty one of its fields text, response and  *)
(* message, in this order: text wins over response, response over message. *)
(***************************************************************************)
\* The whole of s, trimmed, is one object; a recognized field of it is
\* non-empty, and the non-empty ones are strings.
WholeObject(s) ==
    LET j == JSONparse(trim(s)) IN
    /\ ~j.threw
    /\ j.v.t = "object"
    /\ \E k \in Recognized : Truthy(Get(j.v, k))
    /\ \A k \in Recognized : Truthy(Get(j.v, k)) => Get(j.v, k).t = "string"

\* The first non-empty field in the order text, response, message.
PriorityValue(o) == Or(Or(Get(o, "text"), Get(o, "response")), Get(o, "message"))

\* The revision that produced fnRes leaves the case of the text alone.
KeepsCase == impl = "ai" /\ fnPc = "normalized"

C23_TextThenResponseThenMessage ==
    (fnPc \in {"normalized", "normalizedEarlier"} /\ impl # "server" /\ WholeObject(fnArg)) =>
        LET n == fnRes[1]
            v == PriorityValue(JSONparse(trim(fnArg)).v).s
        IN
        /\ ~n.threw
        /\ Get(n.v, "text") = Str(IF KeepsCase THEN v ELSE toUpperCase(v))

(***************************************************************************)
(* C24.  In the two revisions of part_000, when the raw text holds a JSON  *)
(* object that parses and has none of the recognized fields, the reply     *)
(* text is the prose before the object, trimmed (and upper-cased); the     *)
(* prose after the object is not in it.                                    *)
(***************************************************************************)
\* The text the scan matched in s parses as an object with no recognized field.
ObjectWithoutRecognized(s) ==
    /\ HasMatch(s)
    /\ LET j == JSONparse(trim(StripFences(SubSeq(s, MatchFrom(s), MatchTo(s))))) IN
       /\ ~j.threw
       /\ j.v.t = "object"
       /\ \A k \in Recognized : k \notin DOMAIN j.v.f

\* The prose before the text the scan matched.
ProseBefore(s) == SubSeq(s, 1, MatchFrom(s) - 1)

C24_ProseBeforeObject ==
    (fnPc = "normalized" /\ impl \in {"smart", "vercel"} /\ ObjectWithoutRecognized(fnArg)) =>
        LET n == fnRes[1] IN
        /\ ~n.threw
        /\ Get(n.v, "text") = Str(toUpperCase(trim(ProseBefore(fnArg))))

(***************************************************************************)
(* C25.  In the first revision of part_000, when the raw text holds two    *)
(* well-formed JSON objects with prose between them, the first object      *)
(* alone is parsed and its recognized field is the reply text.             *)
(***************************************************************************)
\* The position where the braces opened at position i of s are balanced
\* again, 0 when they never are; depth counts the braces open before i.
RECURSIVE BalancedEnd(_, _, _)
BalancedEnd(s, i, depth) ==
    IF i > Len(s) THEN 0
    ELSE IF s[i] = LB THEN BalancedEnd(s, i + 1, depth + 1)
    ELSE IF s[i] = RB THEN (IF depth = 1 THEN i ELSE BalancedEnd(s, i + 1, depth - 1))
    ELSE BalancedEnd(s, i + 1, depth)

\* The first balanced {...} of s, <<>> when there is none.
FirstBalanced(s) ==
    IF IndexOf(s, LB) = 0 \/ BalancedEnd(s, IndexOf(s, LB), 0) = 0 THEN <<>>
    ELSE SubSeq(s, IndexOf(s, LB), BalancedEnd(s, IndexOf(s, LB), 0))

\* What follows the first balanced {...} of s.
AfterFirstBalanced(s) == SubSeq(s, BalancedEnd(s, IndexOf(s, LB), 0) + 1, Len(s))

ParsesAsObject(s) == s # <<>> /\ ~JSONparse(s).threw /\ JSONparse(s).v.t = "object"

\* s holds two objects that parse, prose between them, and the first one has
\* a recognized field, a non-empty string.
TwoObjects(s) ==
    /\ ParsesAsObject(FirstBalanced(s))
    /\ LET o == JSONparse(FirstBalanced(s)).v
           t == AfterFirstBalanced(s)
       IN
       /\ Truthy(PriorityValue(o)) /\ PriorityValue(o).t = "string"
       /\ ParsesAsObject(FirstBalanced(t))
       /\ trim(SubSeq(t, 1, IndexOf(t, LB) - 1)) # <<>>

C25_FirstObjectWins ==
    (fnPc = "normalized" /\ impl = "smart" /\ TwoObjects(fnArg)) =>
        LET n == fnRes[1] IN
        /\ ~n.threw
        /\ Get(n.v, "text") = Str(toUpperCase(PriorityValue(JSONparse(FirstBalanced(fnArg)).v).s))

(***************************************************************************)
(* C26.  Two requests in flight at once do not touch each other: each one  *)
(* gets the response the handler gives to its messages, its provider and   *)
(* the outcomes of its own fetches when it runs alone; the credentials     *)
(* never change, and each request walks the candidate list of its own      *)
(* provider.                                                               *)
(***************************************************************************)
\* The dispatch run from candidate i on the outcomes os, one after the other.
RECURSIVE DispatchAlone(_, _, _, _)
DispatchAlone(im, provider, i, os) ==
    IF os = <<>> THEN Threw("pending")
    ELSE
        LET d == AfterFetch(im, provider, i, Head(os)) IN
        CASE d.k = "continue" -> DispatchAlone(im, provider, i + 1, Tail(os))
          [] d.k = "throw" -> Threw(d.msg)
          [] OTHER -> Returned(d.v)

\* The handler run from its first line to its response on the body rq, with
\* the credentials e and the fetch outcomes os.
AloneResponse(im, e, rq, os) ==
    IF InvalidMessages(rq.messages) THEN Response("400", ErrorBody("Messages are required."))
    ELSE IF KeyName(rq.provider) \notin e THEN Response("500", ErrorBody(ConfigMsg(im)))
    ELSE
        LET d == DispatchAlone(im, rq.provider, 1, os) IN
        IF d.threw THEN Response("500", ErrorBody(d.msg))
        ELSE
            LET n == Normalize(im, d.v) IN
            IF n.threw THEN Response("500", ErrorBody(n.msg)) ELSE Response("200", n.v)

RespondsAsAlone ==
    \A r \in active :
        /\ Done(r) => resp[r] = <<AloneResponse(impl, env, req[r], outs[r])>>
        /\ calls[r] = SubSeq(Candidates(impl, req[r].provider), 1, Len(calls[r]))

C26_NoSharedState ==
    /\ []RespondsAsAlone
    /\ [][env' = env /\ impl' = impl /\ req' = req]_vars

\* Both requests answered, differently, with the inserts of the one between
\* those of the other.
C26_Witness ==
    /\ Done(1) /\ Done(2)
    /\ resp[1] # resp[2]
    /\ resp[1][1].status = "200" /\ resp[2][1].status = "200"
    /\ Len(db) = 4
    /\ <<db[1].by, db[2].by, db[3].by, db[4].by>> = <<1, 2, 1, 2>>

(***************************************************************************)
(* C27.  In the handler of server.ts and of the first revision of          *)
(* part_000, a request that passed the validation of messages attempts     *)
(* one insert with role user, never more, with the content of the last     *)
(* message; the insert is under way before the credential lookup and       *)
(* before any fetch, so a request that fails on a missing credential or    *)
(* on an exhausted provider has made it.                                   *)
(***************************************************************************)
InsertsWithRole(r, role) == SelectSeq(InsertsBy(r), LAMBDA e : e.role = role)

\* The handler has gone past the credential lookup.
PastLookup(r) == trail[r] # <<"RECEIVED">> \/ calls[r] # <<>> \/ Done(r)

AssistantInsertOnSuccess(r) ==
    LET a == InsertsWithRole(r, "assistant")
        t == trail[r]
    IN
    /\ Len(a) <= 1
    /\ pc[r] = "asstInsert" =>
          /\ Len(a) = 0 /\ resp[r] = <<>>
          /\ Len(t) >= 3 /\ SubSeq(t, Len(t) - 2, Len(t)) = <<"SUCCESS", "PARSED", "SANITIZED">>
    /\ Len(a) = 1 =>
          /\ Done(r) /\ resp[r][1].status = "200"
          /\ a[1].content = Get(resp[r][1].body, "text")
    /\ (Done(r) /\ resp[r][1].status = "200") => Len(a) = 1
    /\ (Done(r) /\ resp[r][1].status # "200") => Len(a) = 0

\* The step that follows the attempt sends the success response.
SuccessAfterAttempt(r) ==
    (pc[r] = "asstInsert" /\ pc'[r] # "asstInsert") =>
        /\ Done(r)'
        /\ resp'[r] = <<Response("200", reply[r])>>

C28_AssistantInsertOnSuccess ==
    /\ [](\A r \in active : impl \in {"server", "smart"} => AssistantInsertOnSuccess(r))
    /\ [][\A r \in active : impl \in {"server", "smart"} => SuccessAfterAttempt(r)]_vars

\* A success whose text the handler upper-cased, saved although the insert failed.
C28_Witness ==
    /\ impl = "server"
    /\ Done(1)
    /\ raw[1] = Str(RawObjText)
    /\ resp[1][1].status = "200"
    /\ Len(db) = 2
    /\ db[2] = [by |-> 1, role |-> "assistant", content |-> Str(<<"A">>), ok |-> FALSE]

(***************************************************************************)
(* C29.  In the server handler a provider that is neither gemini nor groq, *)
(* a missing or unknown one included, is not refused: the request depends  *)
(* on the OpenAI credential alone and, with that credential present, makes *)
(* exactly one fetch, of the OpenAI endpoint; the Gemini models are        *)
(* fetched only for the provider gemini.                                   *)
(***************************************************************************)
OpenAIEndpoint == "gpt-3.5-turbo"

\* An endpoint of the Gemini chain was fetched.
EnteredGeminiChain(r) ==
    \E i \in 1..Len(calls[r]) :
        \E j \in 1..Len(GeminiModels(impl)) : calls[r][i] = GeminiModels(impl)[j]

OtherProviderIsOpenAI(r) ==
    (req[r].provider \notin {"gemini", "groq"} /\ ~BadMessages(r)) =>
        /\ \A i \in 1..Len(calls[r]) : calls[r][i] = OpenAIEndpoint
        /\ Len(calls[r]) <= 1
        /\ contents[r] = <<>>
        /\ Done(r) =>
              /\ resp[r][1].status # "400"
              /\ IF "OPENAI_API_KEY" \in env
                 THEN /\ calls[r] = <<OpenAIEndpoint>>
                      /\ resp[r][1] # Response("500", ErrorBody(ConfigMsg(impl)))
                 ELSE /\ calls[r] = <<>>
                      /\ resp[r][1] = Response("500", ErrorBody(ConfigMsg(impl)))

C29_OtherProviderIsOpenAI ==
    \A r \in active :
        impl # "ai" =>
            /\ OtherProviderIsOpenAI(r)
            /\ (EnteredGeminiChain(r) \/ contents[r] # <<>>) => req[r].provider = "gemini"

\* An unknown provider answered from the OpenAI endpoint, with no credential
\* but the one of OpenAI.
C29_Witness ==
    /\ impl = "server"
    /\ req[1].provider = "unknown"
    /\ env = {"OPENAI_API_KEY"}
    /\ Done(1)
    /\ calls[1] = <<OpenAIEndpoint>>
    /\ resp[1][1].status = "200"

(***************************************************************************)
(* C30.  In the front end, whatever the order of the final transcripts     *)
(* and of their replies, conversationHistory alternates: it begins with a  *)
(* user entry, every user entry is followed by one assistant entry before  *)
(* the next user entry, and when no transcript waits for its reply it has  *)
(* as many assistant entries as user entries.                              *)
(***************************************************************************)
EntriesWithRole(h, role) == Len(SelectSeq(h, LAMBDA m : m.role = role))

C30_HistoryAlternates ==
    ui.rev \in FrontEnds =>
        /\ \A i \in 1..Len(ui.history) :
              ui.history[i].role = IF i % 2 = 1 THEN "user" ELSE "assistant"
        /\ ui.pending = {} =>
              EntriesWithRole(ui.history, "user") = EntriesWithRole(ui.history, "assistant")

====
